---- MODULE Spec2Model ----
(***************************************************************************)
(* Model of sent.py, the staking backend: the /validate handler and        *)
(* check_stakes (stake allocation), format_currency / parse_currency (the  *)
(* currency codec) and the timer-driven caches app.nodes,                  *)
(* app.node_contributors, app.contracts and app.contributors together with *)
(* the handlers that read them.                                            *)
(*                                                                         *)
(* Three specifications share the module:                                  *)
(*   SpecValidate  a request is assembled parameter by parameter and then  *)
(*                 handed to validate_registration or to check_stakes;     *)
(*   SpecCodec     format_currency and parse_currency on bounded inputs;   *)
(*   Spec          the update cycles interleaved with the read handlers.   *)
(***************************************************************************)
EXTENDS Integers, Sequences, FiniteSets, TLC

VARIABLES
    \* ---- SpecValidate
    req,        \* the request under construction / handed to the handler
    phase,      \* "build", "validated" (validate_registration ran), "checked" (check_stakes ran)
    result,     \* what validate_registration returned (or the exception it ended with)
    csResult,   \* what check_stakes did: "ok" or the ValueError it raised
    \* ---- SpecCodec
    cin,        \* the codec input: [origin, units, decimal, text]
    cout,       \* the codec output: [kind, value]
    \* ---- Spec: the attributes the timers hang on the global `app`
    attrs,              \* the names of the attributes assigned so far (hasattr)
    nodes,              \* app.nodes: list of service node records
    node_contributors,  \* app.node_contributors: wallet key -> list of indices into app.nodes
    contracts,          \* app.contracts: contract address -> details
    contributors,       \* app.contributors: wallet key -> list of contract addresses
    known,              \* table contribution_contracts, in rowid order
    usn,                \* the runs of update_service_nodes: run -> [pc, list, index, before]
    ucs,                \* the runs of update_contract_statuses: run -> [pc, todo, chain, before]
    obs,                \* what the last read handler returned, until anything else happens
    \* ---- SpecStore
    registrations,      \* table registrations, in rowid order
    clock,              \* the time the last row was written at
    \* ---- SpecSns
    fut,                \* what the two futures of get_sns hold: [sn_states, height]
    sns                 \* what get_sns returned: [kind, awaiting, active, inactive]

valVars == <<req, phase, result, csResult>>
codecVars == <<cin, cout>>
appVars == <<attrs, nodes, node_contributors, contracts, contributors>>
indexVars == <<attrs, nodes, node_contributors, contracts, contributors, known, usn, ucs, obs>>
storeVars == <<registrations, clock>>
snsVars == <<fut, sns>>
vars == <<req, phase, result, csResult, cin, cout, attrs, nodes, node_contributors,
          contracts, contributors, known, usn, ucs, obs, registrations, clock, fut, sns>>

(***************************************************************************)
(* Program constants.  Python integers are unbounded and MAX_STAKE is      *)
(* 120_000000000 in the source; TLC's integers are 32 bits wide, so the    *)
(* model runs the same integer arithmetic with a small MAX_STAKE.  All     *)
(* properties are stated relative to MAX_STAKE, never to its value.        *)
(***************************************************************************)
MAX_STAKE == 120
MIN_OP_STAKE == MAX_STAKE \div 4
MAX_STAKERS == 10

\* ---- bounds of the explored inputs
MaxOver == 1        \* requests reserve at most MAX_STAKE + MaxOver in total
MaxShort == 2       \* malformed entries / unusual headers: at most this many reserved entries
MaxUnits == 1200    \* format_currency is applied to 0..MaxUnits
MaxDecimal == 3     \* decimal ranges over 0..MaxDecimal
MaxTextLen == 4     \* parse_currency is applied to texts of at most this many characters

RECURSIVE SumSeq(_)
SumSeq(s) == IF s = <<>> THEN 0 ELSE Head(s) + SumSeq(Tail(s))

RECURSIVE Pow10(_)
Pow10(n) == IF n = 0 THEN 1 ELSE 10 * Pow10(n - 1)

\* ======================================================================
\* Currency codec
\* ======================================================================
DigitChars == <<"0", "1", "2", "3", "4", "5", "6", "7", "8", "9">>
DigitSet == {DigitChars[i] : i \in 1..10}
DigitVal(c) == (CHOOSE i \in 1..10 : DigitChars[i] = c) - 1

\* str(n) for a non-negative integer
RECURSIVE Digits(_)
Digits(n) == IF n < 10 THEN <<DigitChars[n + 1]>>
             ELSE Append(Digits(n \div 10), DigitChars[(n % 10) + 1])

\* int(s) for a non-empty string of digits
RECURSIVE IntOf(_)
IntOf(s) == IF Len(s) = 0 THEN 0
            ELSE 10 * IntOf(SubSeq(s, 1, Len(s) - 1)) + DigitVal(s[Len(s)])

\* f"{n:0{w}d}": the digits of n, left-padded with zeros to at least w characters
RECURSIVE ZeroPad(_, _)
ZeroPad(s, w) == IF Len(s) >= w THEN s ELSE ZeroPad(<<"0">> \o s, w)

\* s.rstrip("0")
RECURSIVE RStripZeros(_)
RStripZeros(s) == IF Len(s) > 0 /\ s[Len(s)] = "0"
                  THEN RStripZeros(SubSeq(s, 1, Len(s) - 1)) ELSE s

\* s.ljust(w, "0")
RECURSIVE LJustZeros(_, _)
LJustZeros(s, w) == IF Len(s) >= w THEN s ELSE LJustZeros(Append(s, "0"), w)

\* s.split("."): the pieces between the dots (always at least one piece)
RECURSIVE Split(_)
Split(s) ==
    IF \A i \in 1..Len(s) : s[i] # "." THEN <<s>>
    ELSE LET i == CHOOSE j \in 1..Len(s) : s[j] = "." /\ \A k \in 1..(j - 1) : s[k] # "."
         IN <<SubSeq(s, 1, i - 1)>> \o Split(SubSeq(s, i + 1, Len(s)))

\* re.fullmatch(r"\d+", p)
IsDigits(p) == Len(p) >= 1 /\ \A i \in 1..Len(p) : p[i] \in DigitSet

\* the fraction without its leading zeros
FracNoPad(frac, decimal) == RStripZeros(<<".">> \o Digits(frac))

\* f".{frac:0{decimal}d}".rstrip("0")
FracText(frac, decimal) == RStripZeros(<<".">> \o ZeroPad(Digits(frac), decimal))

format_currency(units, decimal) ==
    LET base == Pow10(decimal)
        frac == units % base
    IN Digits(units \div base) \o (IF frac = 0 THEN <<>> ELSE FracText(frac, decimal))

COut(kind, value) == [kind |-> kind, value |-> value]

parse_currency(val, decimal) ==
    LET pieces == Split(val) IN
    IF Len(pieces) > 2 \/ ~(\A i \in 1..Len(pieces) : IsDigits(pieces[i]))
    THEN COut("ParseError", 0)
    ELSE LET whole == IntOf(pieces[1]) IN
         IF Len(pieces) > 1
         THEN LET f0 == pieces[2]
                  frac == IF Len(f0) > decimal THEN SubSeq(f0, 1, decimal)
                          ELSE IF Len(f0) < decimal THEN LJustZeros(f0, decimal)
                          ELSE f0
              IN IF Len(frac) = 0
                 THEN COut("ValueError", 0)      \* int("") raises ValueError
                 ELSE COut("ok", whole * Pow10(decimal) + IntOf(frac))
         ELSE COut("ok", whole * Pow10(decimal))

TextChars == {"0", "1", "5", "9", ".", "x"}

RECURSIVE TextsOfLen(_)
TextsOfLen(n) == IF n = 0 THEN {<<>>}
                 ELSE {Append(t, c) : t \in TextsOfLen(n - 1), c \in TextChars}

Texts == UNION {TextsOfLen(n) : n \in 0..MaxTextLen}

NoCodec == [origin |-> "none", units |-> 0, decimal |-> 0, text |-> <<>>]
NoCOut == COut("none", 0)

CodecInputs ==
    [origin : {"units"}, units : 0..MaxUnits, decimal : 0..MaxDecimal, text : {<<>>}]
    \cup [origin : {"text"}, units : {0}, decimal : 0..MaxDecimal, text : Texts]

\* format_currency(units, decimal) applied to the drawn amount
FormatCurrency ==
    /\ cin.origin = "units"
    /\ cin' = [cin EXCEPT !.origin = "formatted", !.text = format_currency(cin.units, cin.decimal)]
    /\ cout' = cout
    /\ UNCHANGED <<valVars, indexVars, storeVars, snsVars>>

\* parse_currency(k, text, decimal) applied to a drawn text or to a formatted amount
ParseCurrency ==
    /\ cin.origin \in {"text", "formatted"}
    /\ cout.kind = "none"
    /\ cout' = parse_currency(cin.text, cin.decimal)
    /\ cin' = cin
    /\ UNCHANGED <<valVars, indexVars, storeVars, snsVars>>

\* ======================================================================
\* Stake allocation: /validate and check_stakes
\* ======================================================================

\* the floor, where the handler takes the ceiling
FloorDivInsteadOfCeil(a, b) == a \div b

\* integer math ceiling, as written in the handler
CeilDiv(a, b) == (a + b - 1) \div b

(***************************************************************************)
(* A request.  pq is what parse_query_params comes to for the header       *)
(* fields: "ok", or the first error it raises.  keys is what               *)
(* check_reg_keys_sigs finds.  contract tells whether the "contract"       *)
(* parameter is present, fee is the text of the "fee" parameter, stake the *)
(* parsed operator stake in atomic units, and res_addr / res_stake are the *)
(* repeated "res_addr" and "res_stake" parameters.                         *)
(*                                                                         *)
(* An address is [w, form]: the 20-byte wallet w written in form "cs"      *)
(* (valid checksum), "lower" (all lowercase, valid), "badsum" (20 bytes of *)
(* hex that raw_eth_addr rejects: checksum wrong) or "junk" (not 20 bytes  *)
(* of hex).  The operator is wallet 0.  A reserved stake is the amount its text parses   *)
(* to, or BadAmt for a text parse_currency rejects.                        *)
(***************************************************************************)
BadAmt == 0 - 1

ParseStatuses == {"ok", "missing", "unknown", "multiple", "bad_key",
                  "bad_operator", "bad_stake", "bad_contract"}
KeyStatuses == {"ok", "bad_point", "bad_sig"}
FeeTexts == {"absent", "nondigit", "0", "10000", "10001"}

\* int(fee) if re.fullmatch(r"\d+", fee) else -1
FeeInt(fee) == CASE fee = "0" -> 0
                 [] fee = "10000" -> 10000
                 [] fee = "10001" -> 10001
                 [] OTHER -> 0 - 1

Addr(w, form) == [w |-> w, form |-> form]
OperatorWallet == 0

\* ---- results
NoResult == [kind |-> "none", code |-> "", index |-> 0, minimum |-> 0,
             amount |-> 0, limit |-> 0, spots |-> 0]

\* error_response(code, ...): index / minimum / amount / limit are the context
\* the error carries (0 when the error has no such field)
error_response(code, index, minimum, amount, limit) ==
    [kind |-> "error", code |-> code, index |-> index, minimum |-> minimum,
     amount |-> amount, limit |-> limit, spots |-> 0]

\* the handler ended by raising exc instead of returning
Raised(exc) == [kind |-> "exception", code |-> exc, index |-> 0, minimum |-> 0,
                amount |-> 0, limit |-> 0, spots |-> 0]

\* {"success": True} for a solo registration
SoloSuccess == [kind |-> "success", code |-> "", index |-> 0, minimum |-> 0,
                amount |-> 0, limit |-> 0, spots |-> 0]

\* {"success": True, remaining_contribution, remaining_spots, remaining_min_contribution}
MultiSuccess(remaining_stake, remaining_spots) ==
    IF remaining_spots = 0
    THEN Raised("ZeroDivisionError")
    ELSE [kind |-> "success", code |-> "", index |-> 0,
          minimum |-> CeilDiv(remaining_stake, remaining_spots),
          amount |-> remaining_stake, limit |-> 0, spots |-> remaining_spots]

\* raw_eth_addr(k, v) succeeds
RawEthAddrOk(a) == a.form \in {"cs", "lower"}

\* eth_format(addr) returns (to_checksum_address accepts anything that is 20
\* bytes of hex); otherwise it ends in `raise ParseError("Invalid ETH address")`,
\* a constructor call that lacks an argument
EthFormatOk(a) == a.form # "junk"

\* the except-branches after parse_query_params
ParseErrorResponse(pq) ==
    CASE pq \in {"missing", "unknown", "multiple"} -> error_response("bad_request", 0, 0, 0, 0)
      [] pq = "bad_key" -> error_response("signature", 0, 0, 0, 0)
      [] pq = "bad_operator" -> error_response("invalid_op_addr", 0, 0, 0, 0)
      [] pq = "bad_stake" -> error_response("invalid_op_stake", 0, 0, 0, 0)
      [] OTHER -> error_response("invalid_contract_addr", 0, 0, 0, 0)

\* check_reg_keys_sigs(params) returns without raising
check_reg_keys_sigs(keys) == keys = "ok"

\* the fee checks; "" when they pass
FeeError(solo, fee) ==
    IF solo /\ fee # "absent" THEN "invalid_fee"
    ELSE IF fee = "absent" THEN "invalid_fee"
    ELSE IF ~(0 <= FeeInt(fee) /\ FeeInt(fee) <= 10000) THEN "invalid_fee"
    ELSE ""

\* the loop that parses the reserved entries: the result of the first entry
\* that fails, or NoResult when all parse
RECURSIVE ParseReserved(_, _, _)
ParseReserved(addrs, stakes, i) ==
    IF i > Len(addrs) \/ i > Len(stakes) THEN NoResult
    ELSE IF ~RawEthAddrOk(addrs[i])
         THEN IF EthFormatOk(addrs[i])
              THEN error_response("invalid_res_addr", i, 0, 0, 0)
              ELSE Raised("TypeError")
    ELSE IF stakes[i] = BadAmt
         THEN error_response("invalid_res_stake", i, 0, 0, 0)
    ELSE ParseReserved(addrs, stakes, i + 1)

\* the comparison with <= in place of <
OpStakeTooLowOffByOne(stake) == stake <= MIN_OP_STAKE

OpStakeTooLow(stake) == stake < MIN_OP_STAKE

\* the loop over the reserved contributors, from entry i on
RECURSIVE ReservedLoop(_, _, _, _)
ReservedLoop(amts, i, remaining_stake, remaining_spots) ==
    IF i > Len(amts) THEN MultiSuccess(remaining_stake, remaining_spots)
    ELSE LET min_contr == CeilDiv(remaining_stake, remaining_spots) IN
         IF amts[i] < min_contr
         THEN error_response("insufficient_res_stake", i, min_contr, 0, 0)
         ELSE ReservedLoop(amts, i + 1, remaining_stake - amts[i], remaining_spots - 1)

\* the stake checks of a multi-contributor registration
MultiStakeCheck(stake, amts) ==
    LET total_reserved == stake + SumSeq(amts) IN
    IF OpStakeTooLow(stake)
    THEN error_response("insufficient_op_stake", 0, MIN_OP_STAKE, stake, 0)
    ELSE IF total_reserved > MAX_STAKE
    THEN error_response("too_much", 0, 0, total_reserved, MAX_STAKE)
    ELSE IF 1 + Len(amts) > MAX_STAKERS
    THEN error_response("too_many", 0, 0, 0, MAX_STAKERS - 1)
    ELSE ReservedLoop(amts, 1, MAX_STAKE - stake, MAX_STAKERS - 1)

SoloStakeCheck(stake, amts) ==
    LET total_reserved == stake + SumSeq(amts) IN
    IF total_reserved # MAX_STAKE
    THEN error_response("wrong_op_stake", 0, 0, total_reserved, MAX_STAKE)
    ELSE SoloSuccess

validate_registration(r) ==
    LET solo == ~r.contract
        parsed == ParseReserved(r.res_addr, r.res_stake, 1)
    IN
    IF r.pq # "ok" THEN ParseErrorResponse(r.pq)
    ELSE IF ~check_reg_keys_sigs(r.keys) THEN error_response("signature", 0, 0, 0, 0)
    ELSE IF solo /\ Len(r.res_addr) > 0 THEN error_response("invalid_contract_addr", 0, 0, 0, 0)
    ELSE IF FeeError(solo, r.fee) # "" THEN error_response(FeeError(solo, r.fee), 0, 0, 0, 0)
    ELSE IF Len(r.res_addr) # Len(r.res_stake) THEN error_response("bad_request", 0, 0, 0, 0)
    ELSE IF parsed.kind # "none" THEN parsed
    ELSE IF solo THEN SoloStakeCheck(r.stake, r.res_stake)
    ELSE MultiStakeCheck(r.stake, r.res_stake)

\* ---- check_stakes(stakes, total, stakers, max_stakers)
Range(s) == {s[i] : i \in 1..Len(s)}

\* the loop with the operator held to an equal share like everyone else
RECURSIVE StakesLoopNoQuarter(_, _, _, _)
StakesLoopNoQuarter(stakes, i, remaining_stake, remaining_spots) ==
    IF i > Len(stakes) THEN "ok"
    ELSE IF remaining_spots = 0 THEN "ZeroDivisionError"
    ELSE IF stakes[i] < remaining_stake \div remaining_spots THEN "too_low"
    ELSE StakesLoopNoQuarter(stakes, i + 1, remaining_stake - stakes[i], remaining_spots - 1)

\* lines 794-801; i is 1-based here, so the operator is i = 1
RECURSIVE StakesLoop(_, _, _, _)
StakesLoop(stakes, i, remaining_stake, remaining_spots) ==
    IF i > Len(stakes) THEN "ok"
    ELSE LET divisor == IF i = 1 THEN 4 ELSE remaining_spots IN
         IF divisor = 0 THEN "ZeroDivisionError"
         ELSE IF stakes[i] < remaining_stake \div divisor THEN "too_low"
         ELSE StakesLoop(stakes, i + 1, remaining_stake - stakes[i], remaining_spots - 1)

\* check_stakes without its test of sum(stakes) > total
check_stakes_no_total_check(stakes, total, stakers, max_stakers) ==
    IF Len(stakers) # Len(stakes) THEN "length_mismatch"
    ELSE IF Len(stakers) < 1 THEN "empty"
    ELSE IF Len(stakers) > max_stakers THEN "too_many"
    ELSE IF Cardinality(Range(stakers)) # Len(stakers) THEN "duplicate"
    ELSE StakesLoop(stakes, 1, total, max_stakers)

check_stakes(stakes, total, stakers, max_stakers) ==
    IF Len(stakers) # Len(stakes) THEN "length_mismatch"
    ELSE IF Len(stakers) < 1 THEN "empty"
    ELSE IF Len(stakers) > max_stakers THEN "too_many"
    ELSE IF SumSeq(stakes) > total THEN "too_large"
    ELSE IF Cardinality(Range(stakers)) # Len(stakers) THEN "duplicate"
    ELSE StakesLoop(stakes, 1, total, max_stakers)

\* the plan of a request as check_stakes takes it: the operator first
PlanStakes(r) == <<r.stake>> \o r.res_stake
PlanStakers(r) == <<OperatorWallet>> \o [i \in 1..Len(r.res_addr) |-> r.res_addr[i].w]

\* ---- the explored requests
\* q: an equal share of what the operator's minimum leaves to the other spots
EqualShare == CeilDiv(MAX_STAKE - MIN_OP_STAKE, MAX_STAKERS - 1)

OpStakes == {MIN_OP_STAKE - 1, MIN_OP_STAKE, MIN_OP_STAKE + 1,
             MAX_STAKE - 1, MAX_STAKE, MAX_STAKE + 1}
ResAmounts == {EqualShare - 1, EqualShare, EqualShare + 1}

Header(pq, keys, contract, fee, stake) ==
    [pq |-> pq, keys |-> keys, contract |-> contract, fee |-> fee, stake |-> stake,
     res_addr |-> <<>>, res_stake |-> <<>>]

\* headers: every combination of contract, fee and operator stake with intact
\* parameters and keys, and every parameter / key defect on an otherwise
\* well-formed multi-contributor header
Headers ==
    {Header("ok", "ok", c, f, s) : c \in BOOLEAN, f \in FeeTexts, s \in OpStakes}
    \cup {Header(pq, "ok", TRUE, "0", MIN_OP_STAKE) : pq \in ParseStatuses}
    \cup {Header("ok", k, TRUE, "0", MIN_OP_STAKE) : k \in KeyStatuses}

\* a well-formed multi-contributor request whose reserved entries all parse
\* and name wallets of their own: only these grow beyond MaxShort entries
Regular(r) ==
    /\ r.pq = "ok" /\ r.keys = "ok" /\ r.contract /\ r.fee = "0"
    /\ Len(r.res_addr) = Len(r.res_stake)
    /\ \A i \in 1..Len(r.res_addr) : r.res_addr[i] = Addr(i, "cs")
    /\ \A i \in 1..Len(r.res_stake) : r.res_stake[i] # BadAmt

\* the addresses tried for the k-th reserved entry besides its own wallet k:
\* the operator's wallet again (in either spelling), the previous entry's
\* wallet again, and the two kinds of invalid address
OddAddrs(k) ==
    {Addr(OperatorWallet, "cs"), Addr(OperatorWallet, "lower"), Addr(k, "badsum"), Addr(k, "junk")}
    \cup (IF k > 1 THEN {Addr(k - 1, "cs")} ELSE {})

\* one more res_addr / res_stake pair with a wallet of its own
AddReserved ==
    /\ phase = "build"
    /\ Len(req.res_addr) = Len(req.res_stake)
    /\ Len(req.res_addr) < MAX_STAKERS
    /\ Len(req.res_addr) >= MaxShort => Regular(req)
    /\ \E amt \in ResAmounts :
         /\ req.stake + SumSeq(req.res_stake) + amt <= MAX_STAKE + MaxOver
         /\ req' = [req EXCEPT !.res_addr = Append(@, Addr(Len(@) + 1, "cs")),
                               !.res_stake = Append(@, amt)]
    /\ UNCHANGED <<phase, result, csResult, codecVars, indexVars, storeVars, snsVars>>

\* one more pair whose address repeats a wallet or is invalid, or whose
\* stake text does not parse
AddOddReserved ==
    /\ phase = "build"
    /\ Len(req.res_addr) = Len(req.res_stake)
    /\ Len(req.res_addr) < MaxShort
    /\ \/ \E a \in OddAddrs(Len(req.res_addr) + 1) :
            /\ req.stake + SumSeq(req.res_stake) + EqualShare <= MAX_STAKE + MaxOver
            /\ req' = [req EXCEPT !.res_addr = Append(@, a),
                                  !.res_stake = Append(@, EqualShare)]
       \/ req' = [req EXCEPT !.res_addr = Append(@, Addr(Len(@) + 1, "cs")),
                             !.res_stake = Append(@, BadAmt)]
    /\ UNCHANGED <<phase, result, csResult, codecVars, indexVars, storeVars, snsVars>>

\* a res_addr without its res_stake
AddLoneAddr ==
    /\ phase = "build"
    /\ Len(req.res_addr) = Len(req.res_stake)
    /\ Len(req.res_addr) < MaxShort
    /\ req' = [req EXCEPT !.res_addr = Append(@, Addr(Len(@) + 1, "cs"))]
    /\ UNCHANGED <<phase, result, csResult, codecVars, indexVars, storeVars, snsVars>>

\* a res_stake without its res_addr
AddLoneStake ==
    /\ phase = "build"
    /\ Len(req.res_addr) = Len(req.res_stake)
    /\ Len(req.res_addr) < MaxShort
    /\ req' = [req EXCEPT !.res_stake = Append(@, EqualShare)]
    /\ UNCHANGED <<phase, result, csResult, codecVars, indexVars, storeVars, snsVars>>

\* GET /validate
Validate ==
    /\ phase = "build"
    /\ result' = validate_registration(req)
    /\ phase' = "validated"
    /\ UNCHANGED <<req, csResult, codecVars, indexVars, storeVars, snsVars>>

\* check_stakes(stakes, MAX_STAKE, stakers, MAX_STAKERS) on the plan of the request
CheckStakes ==
    /\ phase = "build"
    /\ req.pq = "ok" /\ req.keys = "ok"
    /\ \A i \in 1..Len(req.res_stake) : req.res_stake[i] # BadAmt
    /\ csResult' = check_stakes(PlanStakes(req), MAX_STAKE, PlanStakers(req), MAX_STAKERS)
    /\ phase' = "checked"
    /\ UNCHANGED <<req, result, codecVars, indexVars, storeVars, snsVars>>

\* ======================================================================
\* The caches on `app`, the timers that rebuild them, the handlers that read them
\* ======================================================================

\* ---- Python dicts as functions
EmptyDict == [k \in {} |-> <<>>]
Put(d, k, v) == [x \in (DOMAIN d) \cup {k} |-> IF x = k THEN v ELSE d[x]]

(***************************************************************************)
(* Addresses are strings.  Wallet A is written "a" (40 hex digits, as the  *)
(* service node RPC gives it), "0xa" (prefixed, lowercase) or "0xA"        *)
(* (prefixed, checksummed); likewise wallet B.  "La", "Lb" are native      *)
(* wallet addresses, which are not ETH addresses.                          *)
(***************************************************************************)
EthSpellings == {"a", "0xa", "0xA", "b", "0xb", "0xB"}

\* eth_utils.to_checksum_address for the spellings above
eth_format(addr) == IF addr \in {"a", "0xa", "0xA"} THEN "0xA" ELSE "0xB"

\* len(address) == 40
IsHex40(addr) == addr \in {"a", "b"}

\* ---- what the chain sources return
Node(pk, active, funded, cs) ==
    [pubkey_ed25519 |-> pk, active |-> active, funded |-> funded, contributors |-> cs]

N1 == Node("pk1", TRUE, TRUE, <<"a", "Lb">>)
N2 == Node("pk2", FALSE, TRUE, <<"a">>)
N3 == Node("pk3", FALSE, FALSE, <<"b">>)

\* the lists rpc.get_service_nodes may answer with
NodeLists == {<<N1, N2>>, <<N2>>, <<N3>>}

\* one contract's on-chain status; contributions lists the keys of
\* get_individual_contributions() in order; keys tells whether bls_pubkey,
\* service_node_pubkey and service_node_signature are still bytes or have
\* been replaced by hex text
Status(finalized, cancelled, contributions) ==
    [finalized |-> finalized, cancelled |-> cancelled,
     contributions |-> contributions, keys |-> "bytes"]

Statuses == {Status(FALSE, FALSE, <<"0xA">>), Status(TRUE, FALSE, <<"0xa", "0xB">>)}

ContractAddresses == {"c1", "c2"}

\* the batches get_latest_contribution_contract_events() may deliver
EventBatches == {<<"c1">>, <<"c1", "c2", "c1">>}

\* ---- snapshots: the two halves of the published index
NodeSnap(has, ns, nc) == [has |-> has, nodes |-> ns, node_contributors |-> nc]
ContractSnap(has, cs, cb) == [has |-> has, contracts |-> cs, contributors |-> cb]

NodeSnapNow == NodeSnap(attrs \cap {"nodes", "node_contributors"}, nodes, node_contributors)
ContractSnapNow == ContractSnap(attrs \cap {"contracts", "contributors"}, contracts, contributors)

NoObs == [handler |-> "none", wallet |-> "", kind |-> "", sns |-> <<>>,
          contracts |-> <<>>, open |-> {}]

\* ---- fetch_contribution_contracts
\* a plain INSERT for each event, without the ON CONFLICT clause
InsertAllNoConflictClause(table, events) == table \o events

\* INSERT ... ON CONFLICT (contract_address) DO NOTHING, for each event in turn
RECURSIVE InsertAll(_, _)
InsertAll(table, events) ==
    IF events = <<>> THEN table
    ELSE InsertAll(IF \E i \in 1..Len(table) : table[i] = Head(events)
                   THEN table ELSE Append(table, Head(events)),
                   Tail(events))

FetchContributionContracts ==
    /\ \E events \in EventBatches : known' = InsertAll(known, events)
    /\ known' # known
    /\ obs' = NoObs
    /\ UNCHANGED <<appVars, usn, ucs, valVars, codecVars, storeVars, snsVars>>

\* ---- update_service_nodes
UsnRuns == {"u1"}
NoNodeSnap == NodeSnap({}, <<>>, EmptyDict)

\* a run at rest.  before is a history field: the validator half of the index
\* as it was when the run started (kept while the run is under way or failed)
UsnIdle == [pc |-> "idle", list |-> <<>>, index |-> 0, before |-> NoNodeSnap]

\* the body of the loop for the node at position index (0-based): every
\* contributor's key gets index appended
RECURSIVE IndexNode(_, _, _, _)
IndexNode(nc, addrs, i, index) ==
    IF i > Len(addrs) THEN nc
    ELSE LET address == addrs[i]
             wallet_key == IF IsHex40(address) THEN eth_format(address) ELSE address
             nc1 == IF wallet_key \notin DOMAIN nc THEN Put(nc, wallet_key, <<>>) ELSE nc
         IN IndexNode(Put(nc1, wallet_key, Append(nc1[wallet_key], index)), addrs, i + 1, index)

\* the list the loop of run r walks: app.nodes as it is when the loop starts
WalkedList(r) == IF usn[r].index = 0 THEN nodes ELSE usn[r].list

\* line 302: the fetch returns and its result is assigned to app.nodes
UsnStart(r) ==
    /\ usn[r].pc \in {"idle", "failed"}
    /\ \E fetched \in NodeLists : nodes' = fetched
    /\ attrs' = attrs \cup {"nodes"}
    /\ usn' = [usn EXCEPT ![r] = [pc |-> "reset", list |-> <<>>, index |-> 0,
                                  before |-> NodeSnapNow]]
    /\ obs' = NoObs
    /\ UNCHANGED <<node_contributors, contracts, contributors, known, ucs, valVars, codecVars, storeVars, snsVars>>

\* line 302: the fetch raises; nothing has been assigned yet
UsnFetchFail(r) ==
    /\ usn[r].pc = "idle"
    /\ usn' = [usn EXCEPT ![r] = [pc |-> "failed", list |-> <<>>, index |-> 0,
                                  before |-> NodeSnapNow]]
    /\ obs' = NoObs
    /\ UNCHANGED <<appVars, known, ucs, valVars, codecVars, storeVars, snsVars>>

\* line 303: app.node_contributors = {}
UsnReset(r) ==
    /\ usn[r].pc = "reset"
    /\ node_contributors' = EmptyDict
    /\ attrs' = attrs \cup {"node_contributors"}
    /\ usn' = [usn EXCEPT ![r].pc = "loop"]
    /\ obs' = NoObs
    /\ UNCHANGED <<nodes, contracts, contributors, known, ucs, valVars, codecVars, storeVars, snsVars>>

\* lines 306-316: one iteration of the loop over the nodes
UsnLoop(r) ==
    /\ usn[r].pc = "loop"
    /\ usn[r].index < Len(WalkedList(r))
    /\ LET l == WalkedList(r)
           node == l[usn[r].index + 1]
       IN /\ node_contributors' =
                IndexNode(node_contributors, node.contributors, 1, usn[r].index)
          /\ usn' = [usn EXCEPT ![r].list = l, ![r].index = @ + 1]
    /\ obs' = NoObs
    /\ UNCHANGED <<attrs, nodes, contracts, contributors, known, ucs, valVars, codecVars, storeVars, snsVars>>

\* line 318: the loop is over and the cycle returns
UsnFinish(r) ==
    /\ usn[r].pc = "loop"
    /\ usn[r].index >= Len(WalkedList(r))
    /\ usn' = [usn EXCEPT ![r] = UsnIdle]
    /\ obs' = NoObs
    /\ UNCHANGED <<appVars, known, ucs, valVars, codecVars, storeVars, snsVars>>

\* ---- update_contract_statuses
UcsRuns == {"s1"}
NoContractSnap == ContractSnap({}, EmptyDict, EmptyDict)

\* a run at rest.  before is a history field: the contract half of the index
\* as it was when the run started (kept while the run is under way or failed)
UcsIdle == [pc |-> "idle", todo |-> <<>>, chain |-> EmptyDict, before |-> NoContractSnap]

\* lines 288-293: the contributors of contract_address are entered in the index
RECURSIVE IndexContract(_, _, _, _)
IndexContract(cb, addrs, i, contract_address) ==
    IF i > Len(addrs) THEN cb
    ELSE LET address == addrs[i]
             wallet_key == eth_format(address)
             cb1 == IF address \notin DOMAIN cb THEN Put(cb, wallet_key, <<>>) ELSE cb
             cb2 == IF \A j \in 1..Len(cb1[wallet_key]) : cb1[wallet_key][j] # contract_address
                    THEN Put(cb1, wallet_key, Append(cb1[wallet_key], contract_address))
                    ELSE cb1
         IN IndexContract(cb2, addrs, i + 1, contract_address)

\* lines 256-261: the known addresses are read and both maps are reset.  chain
\* is what the chain answers for each contract during this cycle.
UcsStart(r) ==
    /\ ucs[r].pc \in {"idle", "failed"}
    /\ \E chain \in [{known[i] : i \in 1..Len(known)} -> Statuses] :
         ucs' = [ucs EXCEPT ![r] = [pc |-> "loop", todo |-> known, chain |-> chain,
                                   before |-> ContractSnapNow]]
    /\ contributors' = EmptyDict
    /\ contracts' = EmptyDict
    /\ attrs' = attrs \cup {"contracts", "contributors"}
    /\ obs' = NoObs
    /\ UNCHANGED <<nodes, node_contributors, known, usn,
                   valVars, codecVars, storeVars, snsVars>>

\* lines 264-293: the status of the next contract arrives and is stored
UcsStore(r) ==
    /\ ucs[r].pc = "loop"
    /\ ucs[r].todo # <<>>
    /\ LET contract_address == Head(ucs[r].todo)
           status == ucs[r].chain[contract_address]
       IN /\ contracts' = Put(contracts, contract_address, status)
          /\ contributors' =
                IndexContract(contributors, status.contributions, 1, contract_address)
    /\ ucs' = [ucs EXCEPT ![r].todo = Tail(@)]
    /\ obs' = NoObs
    /\ UNCHANGED <<attrs, nodes, node_contributors, known, usn,
                   valVars, codecVars, storeVars, snsVars>>

\* lines 264-273: one of the status calls of the next contract raises
UcsFetchFail(r) ==
    /\ ucs[r].pc = "loop"
    /\ ucs[r].todo # <<>>
    /\ ucs' = [ucs EXCEPT ![r].pc = "failed"]
    /\ obs' = NoObs
    /\ UNCHANGED <<appVars, known, usn, valVars, codecVars, storeVars, snsVars>>

\* line 295: the loop is over and the cycle returns
UcsFinish(r) ==
    /\ ucs[r].pc = "loop"
    /\ ucs[r].todo = <<>>
    /\ ucs' = [ucs EXCEPT ![r] = UcsIdle]
    /\ obs' = NoObs
    /\ UNCHANGED <<appVars, known, usn, valVars, codecVars, storeVars, snsVars>>

\* ---- the read handlers
\* hexify: the details as they stand after json_response
Hexed(details) == [details EXCEPT !.keys = "hex"]

\* get_nodes_for_wallet, first half: the nodes app.node_contributors lists for
\* the wallet; app.nodes[index] raises IndexError for an index past the end
NodePart(ns, wallet) ==
    IF "node_contributors" \in ns.has /\ wallet \in DOMAIN ns.node_contributors
    THEN LET idx == ns.node_contributors[wallet] IN
         IF \E i \in 1..Len(idx) : idx[i] >= Len(ns.nodes)
         THEN [kind |-> "IndexError", sns |-> <<>>]
         ELSE [kind |-> "ok", sns |-> [i \in 1..Len(idx) |-> ns.nodes[idx[i] + 1]]]
    ELSE [kind |-> "ok", sns |-> <<>>]

\* get_nodes_for_wallet, second half: the contracts app.contributors lists for
\* the wallet.  app.contracts[address] raises KeyError for an unknown address;
\* for a contract that is not finalized the handler goes on to call .get on
\* the list details["contributions"], which raises AttributeError.
ContractPart(cs, wallet) ==
    IF "contributors" \in cs.has /\ wallet \in DOMAIN cs.contributors
    THEN LET list == cs.contributors[wallet]
             bad == {i \in 1..Len(list) :
                        \/ list[i] \notin DOMAIN cs.contracts
                        \/ ~cs.contracts[list[i]].finalized}
             first == CHOOSE i \in bad : \A j \in bad : i <= j
         IN IF bad = {}
            THEN [kind |-> "ok",
                  contracts |-> [i \in 1..Len(list) |->
                                   [contract_address |-> list[i],
                                    details |-> Hexed(cs.contracts[list[i]])]]]
            ELSE IF list[first] \notin DOMAIN cs.contracts
            THEN [kind |-> "KeyError", contracts |-> <<>>]
            ELSE [kind |-> "AttributeError", contracts |-> <<>>]
    ELSE [kind |-> "ok", contracts |-> <<>>]

\* the wallet a /nodes/<wallet> route looks up
LookupKey(wal) == IF wal \in EthSpellings THEN eth_format(wal) ELSE wal

\* what get_nodes_for_wallet answers on the snapshots ns, cs
get_nodes_for_wallet(ns, cs, wal) ==
    LET wallet == LookupKey(wal)
        np == NodePart(ns, wallet)
        cp == ContractPart(cs, wallet)
    IN IF np.kind # "ok"
       THEN [handler |-> "get_nodes_for_wallet", wallet |-> wal, kind |-> np.kind,
             sns |-> <<>>, contracts |-> <<>>, open |-> {}]
       ELSE IF cp.kind # "ok"
       THEN [handler |-> "get_nodes_for_wallet", wallet |-> wal, kind |-> cp.kind,
             sns |-> <<>>, contracts |-> <<>>, open |-> {}]
       ELSE [handler |-> "get_nodes_for_wallet", wallet |-> wal, kind |-> "ok",
             sns |-> np.sns, contracts |-> cp.contracts, open |-> {}]

\* what get_contributable_contracts answers on the snapshot cs
get_contributable_contracts(cs) ==
    IF "contracts" \notin cs.has
    THEN [handler |-> "get_contributable_contracts", wallet |-> "", kind |-> "AttributeError",
          sns |-> <<>>, contracts |-> <<>>, open |-> {}]
    ELSE [handler |-> "get_contributable_contracts", wallet |-> "", kind |-> "ok",
          sns |-> <<>>, contracts |-> <<>>,
          open |-> {[contract_address |-> c, details |-> Hexed(cs.contracts[c])] :
                      c \in {x \in DOMAIN cs.contracts :
                               ~cs.contracts[x].finalized /\ ~cs.contracts[x].cancelled}}]

QueryWallets == {"0xa", "0xB", "La"}

\* GET /nodes/<wallet>.  The response holds the very dicts of app.contracts,
\* so hexify rewrites their bytes values in place.
GetNodesForWallet ==
    /\ \E wal \in QueryWallets :
         /\ obs' = get_nodes_for_wallet(NodeSnapNow, ContractSnapNow, wal)
         /\ contracts' =
              IF obs'.kind = "ok"
              THEN [c \in DOMAIN contracts |->
                      IF \E i \in 1..Len(obs'.contracts) : obs'.contracts[i].contract_address = c
                      THEN Hexed(contracts[c]) ELSE contracts[c]]
              ELSE contracts
    /\ UNCHANGED <<attrs, nodes, node_contributors, contributors, known, usn, ucs, valVars, codecVars, storeVars, snsVars>>

\* GET /nodes/open.  The response is built from copies of the details.
GetContributableContracts ==
    /\ obs' = get_contributable_contracts(ContractSnapNow)
    /\ UNCHANGED <<appVars, known, usn, ucs, valVars, codecVars, storeVars, snsVars>>

\* ======================================================================
\* get_sns: the classification of the fetched validators
\* ======================================================================
\* before the answers arrive and before get_sns ran
NoFut == [has_states |-> FALSE, sn_states |-> <<>>, height |-> 0]
NoSns == [kind |-> "none", awaiting |-> <<>>, active |-> <<>>, inactive |-> <<>>]

MaxSns == 2         \* rpc.get_service_nodes answers with at most this many validators

\* a contributor with and without the key "locked_contributions"
Locked(n) == [address |-> "a", locked_contributions |-> [i \in 1..n |-> i]]
Unlocked == [address |-> "b"]

\* the funding of a validator: fully contributed, or partly reserved and contributed
Fundings ==
    {[staking_requirement |-> MAX_STAKE, total_reserved |-> MAX_STAKE,
      total_contributed |-> MAX_STAKE, contributors |-> <<Locked(2), Locked(1)>>],
     [staking_requirement |-> MAX_STAKE, total_reserved |-> MAX_STAKE - MIN_OP_STAKE,
      total_contributed |-> MIN_OP_STAKE, contributors |-> <<Unlocked, Locked(1)>>]}

\* one entry of "service_node_states"
SnStates ==
    {[active |-> a, funded |-> f, earned_downtime_blocks |-> e, state_height |-> 4,
      staking_requirement |-> m.staking_requirement, total_reserved |-> m.total_reserved,
      total_contributed |-> m.total_contributed, contributors |-> m.contributors] :
        a \in BOOLEAN, f \in BOOLEAN, e \in {0 - 3, 0, 7}, m \in Fundings}

SnLists == UNION {[1..n -> SnStates] : n \in 0..MaxSns}

\* what sns_future.get() and info_future.get() hold; has_states tells whether
\* the answer has the key "service_node_states"
FutInputs ==
    {[has_states |-> TRUE, sn_states |-> l, height |-> h] : l \in SnLists, h \in {5, 9}}
    \cup {[has_states |-> FALSE, sn_states |-> <<>>, height |-> h] : h \in {5, 9}}

Max(a, b) == IF a >= b THEN a ELSE b

\* sum(len(x["locked_contributions"]) for x in sn["contributors"] if "locked_contributions" in x)
RECURSIVE NumContributions(_)
NumContributions(cs) ==
    IF cs = <<>> THEN 0
    ELSE (IF "locked_contributions" \in DOMAIN Head(cs)
          THEN Len(Head(cs).locked_contributions) ELSE 0) + NumContributions(Tail(cs))

\* the bucket with funded tested before active
BucketFundedFirst(sn) ==
    IF sn.funded THEN "inactive" ELSE IF sn.active THEN "active" ELSE "awaiting"

\* lines 167-174: the branch a validator takes
Bucket(sn) ==
    IF sn.active THEN "active" ELSE IF sn.funded THEN "inactive" ELSE "awaiting"

\* lines 158-172: the fields the loop body adds to sn
Extend(sn, height) ==
    LET common == [contribution_open |-> sn.staking_requirement - sn.total_reserved,
                   contribution_required |-> sn.staking_requirement - sn.total_contributed,
                   num_contributions |-> NumContributions(sn.contributors)]
        decomm == [decomm_blocks_remaining |-> Max(sn.earned_downtime_blocks, 0),
                   decomm_blocks |-> height - sn.state_height]
        added == IF Bucket(sn) = "inactive" THEN common @@ decomm ELSE common
    IN sn @@ added

\* the entries of list that go to bucket, in order
RECURSIVE Collect(_, _, _)
Collect(list, height, bucket) ==
    IF list = <<>> THEN <<>>
    ELSE (IF Bucket(Head(list)) = bucket THEN <<Extend(Head(list), height)>> ELSE <<>>)
         \o Collect(Tail(list), height, bucket)

get_sns(f) ==
    LET sn_states == IF f.has_states THEN f.sn_states ELSE <<>> IN
    [kind |-> "ok",
     awaiting |-> Collect(sn_states, f.height, "awaiting"),
     active |-> Collect(sn_states, f.height, "active"),
     inactive |-> Collect(sn_states, f.height, "inactive")]

GetSns ==
    /\ sns = NoSns
    /\ sns' = get_sns(fut)
    /\ UNCHANGED <<fut, storeVars, valVars, codecVars, indexVars>>

\* ======================================================================
\* Specifications
\* ======================================================================
ValIdle ==
    /\ req = Header("ok", "ok", FALSE, "absent", 0) /\ phase = "idle"
    /\ result = NoResult /\ csResult = "none"

CodecIdle == cin = NoCodec /\ cout = NoCOut

IndexIdle ==
    /\ attrs = {} /\ nodes = <<>> /\ node_contributors = EmptyDict
    /\ contracts = EmptyDict /\ contributors = EmptyDict
    /\ known = <<>>
    /\ usn = [r \in UsnRuns |-> UsnIdle]
    /\ ucs = [r \in UcsRuns |-> UcsIdle]
    /\ obs = NoObs

\* an empty registrations table
StoreIdle == registrations = <<>> /\ clock = 0

SnsIdle == fut = NoFut /\ sns = NoSns

\* the process right after create_app(): no cache attribute exists yet
Init == ValIdle /\ CodecIdle /\ IndexIdle /\ StoreIdle /\ SnsIdle

Next ==
    \/ FetchContributionContracts
    \/ \E r \in UsnRuns : UsnStart(r) \/ UsnFetchFail(r) \/ UsnReset(r) \/ UsnLoop(r) \/ UsnFinish(r)
    \/ \E r \in UcsRuns : UcsStart(r) \/ UcsStore(r) \/ UcsFetchFail(r) \/ UcsFinish(r)
    \/ GetNodesForWallet
    \/ GetContributableContracts

Spec == Init /\ [][Next]_vars

\* a request is assembled and handed to /validate or to check_stakes
InitValidate ==
    /\ req \in Headers /\ phase = "build" /\ result = NoResult /\ csResult = "none"
    /\ CodecIdle /\ IndexIdle /\ StoreIdle /\ SnsIdle

NextValidate == AddReserved \/ AddOddReserved \/ AddLoneAddr \/ AddLoneStake \/ Validate \/ CheckStakes

SpecValidate == InitValidate /\ [][NextValidate]_vars

\* the codec on bounded inputs
InitCodec == cin \in CodecInputs /\ cout = NoCOut /\ ValIdle /\ IndexIdle /\ StoreIdle /\ SnsIdle

NextCodec == FormatCurrency \/ ParseCurrency

SpecCodec == InitCodec /\ [][NextCodec]_vars

\* a timer that is not scheduled in a behaviour: its runs never start
UsnOff == [UsnIdle EXCEPT !.pc = "off"]
UcsOff == [UcsIdle EXCEPT !.pc = "off"]

\* get_sns on bounded answers of the node
InitSns == fut \in FutInputs /\ sns = NoSns /\ ValIdle /\ CodecIdle /\ IndexIdle /\ StoreIdle

NextSns == GetSns

SpecSns == InitSns /\ [][NextSns]_vars

\* two timer callbacks of one kind under way at once, no reads: either
\* update_service_nodes twice or update_contract_statuses twice
UsnOverlap == {"u1", "u2"}
UcsOverlap == {"s1", "s2"}

InitOverlap ==
    /\ attrs = {} /\ nodes = <<>> /\ node_contributors = EmptyDict
    /\ contracts = EmptyDict /\ contributors = EmptyDict
    /\ known = <<>>
    /\ \/ usn = [r \in UsnOverlap |-> UsnIdle] /\ ucs = [r \in UcsOverlap |-> UcsOff]
       \/ usn = [r \in UsnOverlap |-> UsnOff] /\ ucs = [r \in UcsOverlap |-> UcsIdle]
    /\ obs = NoObs
    /\ ValIdle /\ CodecIdle /\ StoreIdle /\ SnsIdle

NextOverlap ==
    \/ FetchContributionContracts
    \/ \E r \in UsnOverlap : UsnStart(r) \/ UsnFetchFail(r) \/ UsnReset(r) \/ UsnLoop(r) \/ UsnFinish(r)
    \/ \E r \in UcsOverlap : UcsStart(r) \/ UcsStore(r) \/ UcsFetchFail(r) \/ UcsFinish(r)

SpecOverlap == InitOverlap /\ [][NextOverlap]_vars

\* ======================================================================
\* Properties
\* ======================================================================

\* ---- what a reader may see while a cycle runs
\* the rest of the loop of update_service_nodes, from position index on
RECURSIVE IndexRest(_, _, _)
IndexRest(nc, list, index) ==
    IF index >= Len(list) THEN nc
    ELSE IndexRest(IndexNode(nc, list[index + 1].contributors, 1, index), list, index + 1)

\* the rest of the loop of update_contract_statuses
RECURSIVE StoreRest(_, _, _)
StoreRest(snap, todo, chain) ==
    IF todo = <<>> THEN snap
    ELSE StoreRest(ContractSnap(snap.has,
                                Put(snap.contracts, Head(todo), chain[Head(todo)]),
                                IndexContract(snap.contributors,
                                              chain[Head(todo)].contributions, 1, Head(todo))),
                   Tail(todo), chain)

UsnRunning(r) == usn[r].pc \in {"reset", "loop"}
UcsRunning(r) == ucs[r].pc = "loop"

\* the snapshot a running validator cycle is about to publish
NodeTarget == NodeSnap({"nodes", "node_contributors"}, nodes, IndexRest(EmptyDict, nodes, 0))

\* the snapshot a running contract cycle is about to publish
ContractTarget(r) == StoreRest(ContractSnapNow, ucs[r].todo, ucs[r].chain)

\* the complete snapshots: the previous one and the new one while a cycle
\* runs, the published one otherwise
WholeNodeSnaps ==
    IF \E r \in UsnRuns : UsnRunning(r)
    THEN {usn[r].before : r \in {x \in UsnRuns : UsnRunning(x)}} \cup {NodeTarget}
    ELSE {NodeSnapNow}

WholeContractSnaps ==
    IF \E r \in UcsRuns : UcsRunning(r)
    THEN {ucs[r].before : r \in {x \in UcsRuns : UcsRunning(x)}}
         \cup {ContractTarget(r) : r \in {x \in UcsRuns : UcsRunning(x)}}
    ELSE {ContractSnapNow}

\* every cycle under way started from a published snapshot
StartedFromPublished ==
    /\ \A r \in UsnRuns : UsnRunning(r) => usn[r].before.has # {}
    /\ \A r \in UcsRuns : UcsRunning(r) => ucs[r].before.has # {}

\* C1: a read that happens while a validator-snapshot cycle or a
\* contract-status cycle runs answers from the complete previous snapshot or
\* from the complete new one, never from a mixture or a partly filled map.
C1_ReadsSeeWholeSnapshot ==
    StartedFromPublished =>
    /\ obs.handler = "get_nodes_for_wallet" =>
         obs \in {get_nodes_for_wallet(ns, cs, obs.wallet) :
                    ns \in WholeNodeSnaps, cs \in WholeContractSnaps}
    /\ obs.handler = "get_contributable_contracts" =>
         obs \in {get_contributable_contracts(cs) : cs \in WholeContractSnaps}

\* ---- /validate
WellFormed(r) == r.pq = "ok" /\ r.keys = "ok"

\* a multi-contributor request that reaches the stake checks
MultiPlan(r) ==
    /\ WellFormed(r) /\ r.contract /\ FeeInt(r.fee) \in 0..10000
    /\ Len(r.res_addr) = Len(r.res_stake)
    /\ \A i \in 1..Len(r.res_addr) : r.res_addr[i].form \in {"cs", "lower"}
    /\ \A i \in 1..Len(r.res_stake) : r.res_stake[i] # BadAmt

\* the least m with m * spots >= stake
Ceiling(stake, spots) == CHOOSE m \in 0..stake : m * spots >= stake /\ (m - 1) * spots < stake

\* R and S of the k-th reserved contributor
RemainingBefore(r, k) == MAX_STAKE - r.stake - SumSeq(SubSeq(r.res_stake, 1, k - 1))
SpotsFor(k) == MAX_STAKERS - k

\* the reserved contributors that stake less than their share
Short(r) == {k \in 1..Len(r.res_stake) :
               r.res_stake[k] < Ceiling(RemainingBefore(r, k), SpotsFor(k))}

\* C2: a solo registration with valid keys and signatures is accepted exactly
\* when the operator stake is MAX_STAKE; MAX_STAKE - 1 and MAX_STAKE + 1 are
\* rejected with wrong_op_stake.
C2_SoloExactStake ==
    (/\ phase = "validated" /\ WellFormed(req) /\ ~req.contract
     /\ req.fee = "absent" /\ req.res_addr = <<>> /\ req.res_stake = <<>>)
    => /\ (result.kind = "success") <=> (req.stake = MAX_STAKE)
       /\ req.stake \in {MAX_STAKE - 1, MAX_STAKE + 1} => result.code = "wrong_op_stake"

\* C3: a multi-contributor plan of MAX_STAKERS + 1 entries is rejected with
\* too_many, and a plan of exactly MAX_STAKERS entries, each meeting its
\* minimum, with a total not above MAX_STAKE, yields a success result.
C3_MaxStakersBoundary ==
    (/\ phase = "validated" /\ MultiPlan(req)
     /\ req.stake >= MIN_OP_STAKE
     /\ req.stake + SumSeq(req.res_stake) <= MAX_STAKE)
    => /\ 1 + Len(req.res_stake) = MAX_STAKERS + 1 => result.code = "too_many"
       /\ (1 + Len(req.res_stake) = MAX_STAKERS /\ Short(req) = {}) => result.kind = "success"

\* ---- completable plans
\* the minimum of the contributor that comes after p entries, when stake is
\* still open: the rule of check_stakes ("floor") or of /validate ("ceil")
MinimumAt(stake, p, rule) ==
    IF rule = "floor" THEN stake \div (MAX_STAKERS - p) ELSE Ceiling(stake, MAX_STAKERS - p)

\* what is still open at the end when, after p entries, every further
\* contributor stakes exactly its minimum
RECURSIVE OpenAfterMinimums(_, _, _)
OpenAfterMinimums(stake, p, rule) ==
    IF stake = 0 \/ p >= MAX_STAKERS THEN stake
    ELSE OpenAfterMinimums(stake - MinimumAt(stake, p, rule), p + 1, rule)

Completable(stakes, rule) ==
    \A j \in 1..Len(stakes) :
        LET open == MAX_STAKE - SumSeq(SubSeq(stakes, 1, j)) IN
        /\ open >= 0
        /\ open > 0 => MAX_STAKERS - j >= 1
        /\ OpenAfterMinimums(open, j, rule) = 0

\* C4: every plan check_stakes accepts, and every plan the multi-contributor
\* branch of /validate accepts, is completable: after each prefix the open
\* stake is >= 0, a spot remains while stake is open, and the remaining
\* contributors staking their minimum bring the total to exactly MAX_STAKE.
C4_AcceptedPlansCompletable ==
    /\ (phase = "checked" /\ csResult = "ok") => Completable(PlanStakes(req), "floor")
    /\ (phase = "validated" /\ req.contract /\ result.kind = "success")
          => Completable(PlanStakes(req), "ceil")

\* a partial plan accepted by both validators, its second reserved
\* contributor at exactly its minimum, with stake still open
C4_Witness ==
    /\ phase = "validated" /\ req.contract /\ result.kind = "success"
    /\ check_stakes(PlanStakes(req), MAX_STAKE, PlanStakers(req), MAX_STAKERS) = "ok"
    /\ Len(req.res_stake) = 2
    /\ req.res_stake[2] = Ceiling(RemainingBefore(req, 2), SpotsFor(2))
    /\ req.stake + SumSeq(req.res_stake) < MAX_STAKE

\* the wallets of a request whose addresses are valid, the operator first
PlanWallets(r) == <<OperatorWallet>> \o [i \in 1..Len(r.res_addr) |-> r.res_addr[i].w]
HasDuplicate(r) == \E i, j \in 1..Len(PlanWallets(r)) : i < j /\ PlanWallets(r)[i] = PlanWallets(r)[j]

\* C5: a plan that names one wallet twice (the operator again among the
\* reserved contributors, or one reserved address twice) is never accepted,
\* neither by /validate nor by check_stakes.
C5_DuplicateWalletRejected ==
    /\ (phase = "validated" /\ MultiPlan(req) /\ HasDuplicate(req)) => result.kind # "success"
    /\ (phase = "checked" /\ HasDuplicate(req)) => csResult # "ok"

\* C6: with a contract address, a valid fee and no reserved contributors, an
\* operator stake of MIN_OP_STAKE = MAX_STAKE / 4 is accepted and
\* MIN_OP_STAKE - 1 is rejected with insufficient_op_stake, minimum MIN_OP_STAKE.
C6_OperatorMinimumBoundary ==
    (/\ phase = "validated" /\ MultiPlan(req) /\ req.res_stake = <<>>)
    => /\ 4 * MIN_OP_STAKE <= MAX_STAKE /\ MAX_STAKE < 4 * (MIN_OP_STAKE + 1)
       /\ req.stake = MIN_OP_STAKE => result.kind = "success"
       /\ req.stake = MIN_OP_STAKE - 1 =>
            /\ result.kind = "error" /\ result.code = "insufficient_op_stake"
            /\ result.minimum = MIN_OP_STAKE

C6_Witness ==
    /\ phase = "validated" /\ MultiPlan(req) /\ req.res_stake = <<>>
    /\ req.stake = MIN_OP_STAKE /\ result.kind = "success"
    /\ result.amount = MAX_STAKE - MIN_OP_STAKE /\ result.spots = MAX_STAKERS - 1

C8_RoundTrip ==
    (cin.origin = "formatted" /\ cout.kind # "none") => cout = COut("ok", cin.units)

\* an amount whose fraction has a leading and a trailing zero
C8_Witness ==
    /\ cin.origin = "formatted" /\ cout.kind = "ok"
    /\ cin.decimal = 3 /\ cin.units % 1000 = 50 /\ cin.units > 1000

\* text is digits.digits
IsDecimalText(t) == Len(Split(t)) = 2 /\ IsDigits(Split(t)[1]) /\ IsDigits(Split(t)[2])

\* the fraction counted in units of 10^-d, digits beyond the d-th dropped
FractionUnits(frac, d) ==
    IF Len(frac) > d THEN IntOf(frac) \div Pow10(Len(frac) - d)
    ELSE IntOf(frac) * Pow10(d - Len(frac))

\* C9: for every text digits.digits and every d >= 0, parse_currency returns
\* whole * 10^d + F, F being the fraction cut to its first d digits (never
\* rounded) or right-padded with zeros to d digits.
C9_ParseTruncates ==
    (cin.origin = "text" /\ cout.kind # "none" /\ IsDecimalText(cin.text))
    => cout = COut("ok", IntOf(Split(cin.text)[1]) * Pow10(cin.decimal)
                         + FractionUnits(Split(cin.text)[2], cin.decimal))

\* ---- failed cycles
\* C10: a cycle that ends in a failed upstream fetch leaves the validators
\* list, the contracts map and both wallet indices exactly as they were
\* before the cycle started.
C10_FailedCycleKeepsSnapshot ==
    /\ \A r \in UsnRuns : (usn[r].pc = "failed" /\ usn[r].before.has # {})
                               => NodeSnapNow = usn[r].before
    /\ \A r \in UcsRuns : (ucs[r].pc = "failed" /\ ucs[r].before.has # {})
                               => ContractSnapNow = ucs[r].before

\* ---- contract discovery
NoDuplicates(seq) == \A i, j \in 1..Len(seq) : seq[i] = seq[j] => i = j
Elements(seq) == {seq[i] : i \in 1..Len(seq)}

\* C15: fetch_contribution_contracts is idempotent: the table of known
\* contract addresses holds each discovered address exactly once, delivering
\* a batch again changes nothing, and no cycle removes an address.
C15_DiscoveryIdempotent ==
    /\ [](/\ NoDuplicates(known)
          /\ \A events \in EventBatches :
               LET once == InsertAll(known, events) IN
               /\ NoDuplicates(once)
               /\ Elements(once) = Elements(known) \cup Elements(events)
               /\ InsertAll(once, events) = once)
    /\ [][Elements(known) \subseteq Elements(known')]_vars

\* both addresses are known after a batch that names one of them twice
C15_Witness ==
    /\ known = <<"c1", "c2">>
    /\ InsertAll(known, <<"c1", "c2", "c1">>) = known

\* ---- the wallet -> contracts index
NoContractCycle == \A r \in DOMAIN ucs : ucs[r].pc \in {"idle", "off"}

\* how often contract c is listed under key
TimesListed(key, c) ==
    IF key \in DOMAIN contributors
    THEN Cardinality({i \in 1..Len(contributors[key]) : contributors[key][i] = c})
    ELSE 0

\* C16: after a completed contract-status cycle the wallet -> contracts index
\* is the reverse of the contracts map: every contract is listed exactly once
\* under the checksummed address of each of its contributors, in whatever
\* letter case the chain returned the address, and the index lists nothing else.
C16_IndexIsReverseOfContracts ==
    (NoContractCycle /\ "contracts" \in attrs) =>
      /\ \A c \in DOMAIN contracts :
           \A a \in Elements(contracts[c].contributions) : TimesListed(eth_format(a), c) = 1
      /\ \A key \in DOMAIN contributors :
           \A c \in Elements(contributors[key]) :
              /\ c \in DOMAIN contracts
              /\ \E a \in Elements(contracts[c].contributions) : eth_format(a) = key

\* ---- reads
\* C20: the read handlers, the building of their JSON response included,
\* leave the validators list, every contract record and both wallet indices
\* as the last cycle published them.
C20_ReadsLeaveIndexUnchanged ==
    [][(GetNodesForWallet \/ GetContributableContracts) => UNCHANGED appVars]_vars

\* ---- the preconditions of the stake allocation validator
\* the first precondition a plan violates, in the order of the list
FirstViolated(stakes, stakers) ==
    IF Len(stakers) # Len(stakes) THEN "length_mismatch"
    ELSE IF Len(stakers) = 0 THEN "empty"
    ELSE IF Len(stakers) > MAX_STAKERS THEN "too_many"
    ELSE IF SumSeq(stakes) > MAX_STAKE THEN "too_large"
    ELSE IF \E i, j \in 1..Len(stakers) : i < j /\ stakers[i] = stakers[j] THEN "duplicate"
    ELSE "none"

\* C17: the stake allocation validator reports the first violated
\* precondition in the order length mismatch, empty plan, too many stakers,
\* total too large, duplicate wallet; a plan with too many entries and too
\* large a total is reported as too many stakers, by check_stakes and by the
\* multi-contributor branch of /validate.
C17_PreconditionOrder ==
    /\ phase = "checked" =>
         LET first == FirstViolated(PlanStakes(req), PlanStakers(req)) IN
         IF first = "none" THEN csResult \in {"ok", "too_low"} ELSE csResult = first
    /\ (/\ phase = "validated" /\ MultiPlan(req) /\ req.stake >= MIN_OP_STAKE
        /\ 1 + Len(req.res_stake) > MAX_STAKERS
        /\ req.stake + SumSeq(req.res_stake) > MAX_STAKE)
       => result.code = "too_many"

\* ---- the proportional minimum rule
\* the greatest m with m * d <= a
Floor(a, d) == CHOOSE m \in 0..a : m * d <= a /\ (m + 1) * d > a

\* d_i and the stake still open before entry i (0-based)
Divisor(i) == IF i = 0 THEN 4 ELSE MAX_STAKERS - i
OpenBefore(stakes, i) == MAX_STAKE - SumSeq(SubSeq(stakes, 1, i))

\* C18: a plan that passes the preconditions is accepted by check_stakes
\* exactly when every amount[i] >= floor(remaining_stake / d_i), d_0 = 4,
\* d_i = max_stakers - i, remaining_stake being total less the amounts before
\* i; otherwise it is rejected as too low; the divisor is never zero.
C18_ProportionalMinimum ==
    (phase = "checked" /\ FirstViolated(PlanStakes(req), PlanStakers(req)) = "none") =>
      LET stakes == PlanStakes(req) IN
      /\ \A i \in 0..(Len(stakes) - 1) : Divisor(i) >= 1
      /\ csResult = IF \A i \in 0..(Len(stakes) - 1) :
                          stakes[i + 1] >= Floor(OpenBefore(stakes, i), Divisor(i))
                    THEN "ok" ELSE "too_low"

\* a full plan of MAX_STAKERS entries, the last walked with divisor 1, whose
\* second reserved contributor stakes less than the first
C18_Witness ==
    /\ phase = "checked" /\ csResult = "ok"
    /\ Len(req.res_stake) = MAX_STAKERS - 1
    /\ req.res_stake[2] < req.res_stake[1]

\* ---- overlapping cycles
NoNodeCycle == \A r \in DOMAIN usn : usn[r].pc \in {"idle", "off"}

\* the index one contract-status cycle builds over the first n known
\* contracts when the chain answers with the published records
BuiltFrom(n) ==
    StoreRest(ContractSnap({}, EmptyDict, EmptyDict), SubSeq(known, 1, n), contracts).contributors

\* C14: when cycles of the same kind have overlapped and all have finished,
\* the published index is the complete result of one cycle: the wallet ->
\* positions map is the index of the published validators list, and the
\* wallet -> contracts map is the index one cycle builds from the published
\* contracts map, with no entries left over from another run.
C14_OverlapLastWriterWins ==
    /\ (NoNodeCycle /\ "node_contributors" \in attrs)
         => node_contributors = IndexRest(EmptyDict, nodes, 0)
    /\ (NoContractCycle /\ "contracts" \in attrs)
         => \E n \in 0..Len(known) :
              /\ DOMAIN contracts = Elements(SubSeq(known, 1, n))
              /\ contributors = BuiltFrom(n)

\* ---- classification
SnFields == {"active", "funded", "earned_downtime_blocks", "state_height",
             "staking_requirement", "total_reserved", "total_contributed", "contributors"}

\* a classified validator as it was fetched
AsFetched(list) == [i \in 1..Len(list) |-> [k \in SnFields |-> list[i][k]]]

\* the fetched validators with the given flags, in order
RECURSIVE Fetched(_, _, _)
Fetched(list, active, funded) ==
    IF list = <<>> THEN <<>>
    ELSE (IF Head(list).active = active /\ (active \/ Head(list).funded = funded)
          THEN <<Head(list)>> ELSE <<>>) \o Fetched(Tail(list), active, funded)

\* C19: get_sns partitions the fetched validators: 'active' holds exactly the
\* active ones, 'inactive' the funded ones that are not active, 'awaiting'
\* the ones neither active nor funded; an inactive validator carries
\* decomm_blocks_remaining = max(earned_downtime_blocks, 0) >= 0 and
\* decomm_blocks = height - state_height; every validator carries
\* contribution_open and contribution_required.
C19_ClassificationIsPartition ==
    sns.kind = "ok" =>
      /\ Len(sns.awaiting) + Len(sns.active) + Len(sns.inactive) = Len(fut.sn_states)
      /\ AsFetched(sns.active) = Fetched(fut.sn_states, TRUE, TRUE)
      /\ AsFetched(sns.inactive) = Fetched(fut.sn_states, FALSE, TRUE)
      /\ AsFetched(sns.awaiting) = Fetched(fut.sn_states, FALSE, FALSE)
      /\ \A i \in 1..Len(sns.inactive) :
           LET sn == sns.inactive[i] IN
           /\ sn.decomm_blocks_remaining >= 0
           /\ sn.decomm_blocks_remaining =
                (IF sn.earned_downtime_blocks > 0 THEN sn.earned_downtime_blocks ELSE 0)
           /\ sn.decomm_blocks = fut.height - sn.state_height
      /\ \A sn \in Elements(sns.awaiting) \cup Elements(sns.active) \cup Elements(sns.inactive) :
           /\ sn.contribution_open = sn.staking_requirement - sn.total_reserved
           /\ sn.contribution_required = sn.staking_requirement - sn.total_contributed

\* an active validator that is funded next to an inactive one with a
\* negative earned_downtime_blocks
C19_Witness ==
    /\ sns.kind = "ok"
    /\ Len(sns.active) = 1 /\ sns.active[1].funded
    /\ Len(sns.inactive) = 1 /\ sns.inactive[1].earned_downtime_blocks < 0
    /\ sns.inactive[1].decomm_blocks_remaining = 0

\* ======================================================================
\* The registration store: /store and the two /registrations reads
\* ======================================================================
MaxStores == 2      \* submissions accepted in one behaviour

None == "None"      \* SQL NULL: no contract, a solo registration

RegPubkeys == {"pk1", "pk2"}
RegBls == {"bls1", "bls2"}
RegOperators == {"a", "b"}          \* the 20 bytes raw_eth_addr returns
RegContracts == {None, "c1", "c2"}

\* what leaves parse_query_params and check_reg_keys_sigs: "ok" or the class
\* of the ValueError raised
StoreStatuses == {"ok", "ParseMissingError", "ParseUnknownError", "ParseMultipleError",
                  "ParseError", "SNSignatureValidationError"}

\* params after parsing; the Ed25519 signature signs pubkey_ed25519 + pubkey_bls
Params(pk, bls, op, contract) ==
    [pubkey_ed25519 |-> pk, pubkey_bls |-> bls, sig_ed25519 |-> <<pk, bls>>,
     sig_bls |-> <<bls>>, operator |-> op, contract |-> contract]

\* the row as stored: timestamp is not among the inserted columns, the table
\* fills it with the time of the insert
StoredRow(params, now) == params @@ [timestamp |-> now]

\* the unique index of the table: one row per pubkey and per kind
UniqueKey(row) == <<row.pubkey_ed25519, row.contract = None>>

\* a plain INSERT
InsertPlain(table, row) == Append(table, row)

\* INSERT OR REPLACE: the rows in conflict with the new one are deleted
InsertOrReplace(table, row) ==
    SelectSeq(table, LAMBDA r : UniqueKey(r) # UniqueKey(row)) \o <<row>>

\* ORDER BY timestamp DESC
RECURSIVE OrderByTimestampDesc(_)
OrderByTimestampDesc(rows) ==
    IF rows = {} THEN <<>>
    ELSE LET newest == CHOOSE r \in rows : \A o \in rows : o.timestamp <= r.timestamp
         IN <<newest>> \o OrderByTimestampDesc(rows \ {newest})

Rows(table) == {table[i] : i \in 1..Len(table)}

\* one dict of the "registrations" array; "contract" only for a contract
\* registration
RegDict(row) ==
    LET common == [type |-> IF row.contract = None THEN "solo" ELSE "contract",
                   pubkey_ed25519 |-> row.pubkey_ed25519, pubkey_bls |-> row.pubkey_bls,
                   sig_ed25519 |-> row.sig_ed25519, sig_bls |-> row.sig_bls,
                   operator |-> row.operator, timestamp |-> row.timestamp]
    IN IF row.contract = None THEN common ELSE common @@ [contract |-> row.contract]

RegDicts(rows) == [i \in 1..Len(rows) |-> RegDict(rows[i])]

\* eth_utils.to_checksum_address of a contract address
ChecksumContract(contract) == <<"0x", contract>>

\* {"success": True, "registration": params}
StoreSuccess(params) ==
    LET common == [pubkey_ed25519 |-> params.pubkey_ed25519, pubkey_bls |-> params.pubkey_bls,
                   sig_ed25519 |-> params.sig_ed25519, sig_bls |-> params.sig_bls,
                   operator |-> eth_format(params.operator),
                   type |-> IF params.contract = None THEN "solo" ELSE "contract"]
    IN [kind |-> "success", handler |-> "store_registration",
        registration |-> IF params.contract = None THEN common
                         ELSE common @@ [contract |-> ChecksumContract(params.contract)]]

\* json_response({"registrations": regs})
Registrations(handler, regs) ==
    [kind |-> "registrations", handler |-> handler, registrations |-> regs]

\* flask.abort(404)
NotFound == [kind |-> "abort", handler |-> "load_registrations", code |-> 404]

\* the rows the table holds before the first submission of a behaviour
Seeded ==
    <<StoredRow(Params("pk1", "bls1", "a", None), 1),
      StoredRow(Params("pk1", "bls1", "a", "c1"), 2),
      StoredRow(Params("pk2", "bls1", "a", None), 3)>>

StoreRegistration ==
    /\ clock < Len(Seeded) + MaxStores
    /\ \E status \in StoreStatuses, pk \in RegPubkeys, bls \in RegBls,
          op \in RegOperators, contract \in RegContracts :
         IF status # "ok"
         THEN /\ result' = Raised(status)
              /\ UNCHANGED storeVars
         ELSE LET params == Params(pk, bls, op, contract) IN
              /\ registrations' = InsertOrReplace(registrations, StoredRow(params, clock + 1))
              /\ clock' = clock + 1
              /\ result' = StoreSuccess(params)
    /\ UNCHANGED <<req, phase, csResult, codecVars, indexVars, snsVars>>

LoadRegistrations ==
    /\ \E sn_pubkey \in RegPubkeys :
         LET regs == RegDicts(OrderByTimestampDesc(
                        {r \in Rows(registrations) : r.pubkey_ed25519 = sn_pubkey}))
         IN result' = IF regs = <<>> THEN NotFound
                      ELSE Registrations("load_registrations", regs)
    /\ UNCHANGED <<req, phase, csResult, codecVars, indexVars, storeVars, snsVars>>

\* bytes.fromhex(op[2:])
FromHex(op) == IF op \in {"0xa", "0xA"} THEN "a" ELSE "b"

\* the loop over app.nodes inside the loop over the rows: its continue goes
\* on with the next node, and the loop always runs to its end
RECURSIVE NodeLoop(_, _)
NodeLoop(ns, sn_pubkey) ==
    IF ns = <<>> THEN "done"
    ELSE IF Head(ns).pubkey_ed25519 = sn_pubkey
         THEN IF Head(ns).active THEN NodeLoop(Tail(ns), sn_pubkey)
              ELSE NodeLoop(Tail(ns), sn_pubkey)
         ELSE NodeLoop(Tail(ns), sn_pubkey)

\* the rows the handler appends to reg_array
RECURSIVE RegArray(_, _, _)
RegArray(rows, has_nodes, ns) ==
    IF rows = <<>> THEN <<>>
    ELSE LET after == IF has_nodes THEN NodeLoop(ns, Head(rows).pubkey_ed25519) ELSE "done"
         IN (IF after = "done" THEN <<RegDict(Head(rows))>> ELSE <<>>)
            \o RegArray(Tail(rows), has_nodes, ns)

OperatorRegistrations ==
    /\ \E op \in {"0xA", "0xb"} :
         LET rows == OrderByTimestampDesc(
                        {r \in Rows(registrations) : r.operator = FromHex(op)})
         IN result' = Registrations("operator_registrations",
                                    RegArray(rows, "nodes" \in attrs, nodes))
    /\ UNCHANGED <<req, phase, csResult, codecVars, indexVars, storeVars, snsVars>>

\* the validators list as update_service_nodes publishes it
Published(list) ==
    /\ attrs = {"nodes", "node_contributors"}
    /\ nodes = list
    /\ node_contributors = IndexRest(EmptyDict, list, 0)
    /\ contracts = EmptyDict /\ contributors = EmptyDict
    /\ known = <<>>
    /\ usn = [r \in UsnRuns |-> UsnIdle]
    /\ ucs = [r \in UcsRuns |-> UcsIdle]
    /\ obs = NoObs

\* an empty table before the first validator cycle, or a table with rows
\* next to a published validators list
InitStore ==
    /\ ValIdle /\ CodecIdle /\ SnsIdle
    /\ clock = Len(Seeded)
    /\ \/ registrations = <<>> /\ IndexIdle
       \/ registrations = Seeded /\ Published(<<N1, N2>>)

NextStore == StoreRegistration \/ LoadRegistrations \/ OperatorRegistrations

SpecStore == InitStore /\ [][NextStore]_vars

\* ---- the store
Kind(row) == IF row.contract = None THEN "solo" ELSE "contract"

\* C11: the store holds for each primary pubkey at most one solo record and
\* at most one contract record; a submission for (pubkey, kind) replaces the
\* record of that kind with the submitted material and leaves the record of
\* the other kind and the records of other pubkeys unchanged; a load for a
\* pubkey answers with at most one record of each kind.
C11_OneRecordPerPubkeyAndKind ==
    /\ [](/\ \A i, j \in 1..Len(registrations) :
               (/\ registrations[i].pubkey_ed25519 = registrations[j].pubkey_ed25519
                /\ Kind(registrations[i]) = Kind(registrations[j])) => i = j
          /\ (result.kind = "registrations" /\ result.handler = "load_registrations") =>
               /\ Len(result.registrations) \in 1..2
               /\ \A i, j \in 1..Len(result.registrations) :
                    result.registrations[i].type = result.registrations[j].type => i = j)
    /\ [][clock' # clock =>
            \E new \in Rows(registrations') :
              /\ new.timestamp = clock'
              /\ \A k \in {"pubkey_ed25519", "pubkey_bls", "sig_ed25519", "sig_bls"} :
                   new[k] = result'.registration[k]
              /\ eth_format(new.operator) = result'.registration.operator
              /\ Kind(new) = result'.registration.type
              /\ Kind(new) = "contract" =>
                   ChecksumContract(new.contract) = result'.registration.contract
              /\ Rows(registrations') \ {new} =
                   {r \in Rows(registrations) :
                      r.pubkey_ed25519 # new.pubkey_ed25519 \/ Kind(r) # Kind(new)}
         ]_vars

\* the solo record of pk1 was replaced, the contract record of pk1 and the
\* record of pk2 are still the seeded ones
C11_Witness ==
    /\ Len(registrations) = 3 /\ clock > Len(Seeded)
    /\ \E r \in Rows(registrations) :
         /\ r.pubkey_ed25519 = "pk1" /\ Kind(r) = "solo"
         /\ r.timestamp = clock /\ r.pubkey_bls = "bls2" /\ r.operator = "b"
    /\ Seeded[2] \in Rows(registrations)
    /\ Seeded[3] \in Rows(registrations)

\* C12: the listing of an operator holds no registration whose pubkey is
\* that of a validator marked active in the published validators list; the
\* registrations of every other pubkey stored for the operator are listed,
\* newest first.
C12_ActiveNodesNotListed ==
    (result.kind = "registrations" /\ result.handler = "operator_registrations") =>
      /\ \A i \in 1..Len(result.registrations) :
           ~ \E n \in 1..Len(nodes) :
               /\ nodes[n].pubkey_ed25519 = result.registrations[i].pubkey_ed25519
               /\ nodes[n].active
      /\ \A i, j \in 1..Len(result.registrations) :
           i < j => result.registrations[i].timestamp >= result.registrations[j].timestamp

\* C13: no request to /store ends in an exception: every failure of the
\* parsing and of the key and signature check is answered with a result.
C13_NoHandlerRaises ==
    result.kind # "exception"

====
